---- MODULE Spec2Model ----
(***************************************************************************)
(* PostgresMuchos (lib/postgres-muchos.js): a promise based query          *)
(* interface over a generic-pool of pg clients, with optional lifecycle    *)
(* events.                                                                 *)
(*                                                                         *)
(* Granularity.  Node runs one callback (an I/O callback or a timer) and   *)
(* all promise reactions it schedules to completion before the next        *)
(* callback.  One action of this model is therefore one callback together  *)
(* with the promise reactions of the query()/close() chain it triggers.    *)
(* The order of the calls made inside one action is recorded in trace[c]   *)
(* (per query call) and closeTrace (for close).                            *)
(*                                                                         *)
(* Strings are sequences of tokens so that the template literal of         *)
(* query()'s catch handler is a real concatenation.                        *)
(***************************************************************************)
EXTENDS Integers, Sequences, FiniteSets, TLC

\* ------------------------------------------------------------------ bounds
NumCalls == 2        \* query() calls that may be issued
MaxPool == 1         \* poolConfig.max
MaxCreates == 2      \* factory.create() invocations over a run
MaxTime == 500       \* the clock stops advancing here (ms)
TickMs == 500        \* granularity of the clock (ms)
MaxLen == 3          \* longest string handed to the escape helpers

\* ------------------------------------------------------- program constants
FACTORY_CREATION_WAIT_PERIOD == 500

Calls == 1..NumCalls
Ops == 1..MaxCreates          \* a create operation; on success the client it yields
NoClient == 0                 \* `let client = null`
NULL == <<"null">>            \* the value null of _onErrorMessage
EmptyString == <<>>           \* the string ""

\* Values the collaborators (caller, pg driver, generic-pool) hand to the code.
Inputs == { [sql |-> <<"select now()">>, parms |-> <<>>],
            [sql |-> <<"select $1">>, parms |-> <<100>>] }
Rows == { <<>>, <<"row">> }
DriverErrors == { <<"syntax error">> }
AcquireErrors == { <<"ResourceRequest timed out">> }
CreateErrors == { EmptyString, <<"ECONNREFUSED">> }
Listeners == { "none", "query", "results" }   \* which listener, if any, throws

\* JavaScript values handed to the static helpers and to factory.validate.  A
\* string is its characters; an object is its reference.
Chars == { "a", "\"", "'", "\\" }
Strings == UNION { [1..n -> Chars] : n \in 0..MaxLen }
StringValue(chars) == [type |-> "string", chars |-> chars]
ObjectValue(ref) == [type |-> "object", ref |-> ref]
NumberValue(n) == [type |-> "number", value |-> n]
ClientValue(alive) == [type |-> "client", alive |-> alive]
Undefined == [type |-> "undefined"]
Sources ==
    { StringValue(chars) : chars \in Strings } \cup
    { ObjectValue(1), ObjectValue(2), NumberValue(100), Undefined } \cup
    { ClientValue(alive) : alive \in BOOLEAN }

VARIABLES
    emitControl,      \* this._emitControl
    onErrorMessage,   \* this._onErrorMessage
    emitted,          \* every this.emit(...) so far, in order, per originator
    createOps,        \* pool._factoryCreateOperations (pending creates)
    factoryResult,    \* how the promises of factory.create and factory.destroy settled
    nextOp,           \* next create operation to start
    resources,        \* clients the pool holds
    available,        \* idle clients of the pool
    loaned,           \* clients on loan (pool._resourceLoans)
    draining,         \* pool.drain() has been invoked
    waiting,          \* query calls whose acquire is pending
    pc,               \* position of each query call
    args,             \* (sql, parms) of each query call
    client,           \* `client` of each query call
    start,            \* `start` of _query
    outcome,          \* how the promise of query() settled
    unhandled,        \* calls whose release promise rejected with no handler on it
    trace,            \* calls made on behalf of each query call, in order
    now,              \* new Date().getTime()
    closePc,          \* position of close()
    closeCalledAt,    \* when close() was called
    closeTimeout,     \* `timeout` of close()
    closePending,     \* create operations pending when close() was called
    closeTrace,       \* pool operations close() invoked, in order, each with the time
                      \* and the creates of closePending still pending then
    closeOutcome,     \* how the promise of close() settled
    method,           \* the static helper or factory method that was applied, if any
    source,           \* its argument
    target            \* what it returned

poolVars == <<createOps, factoryResult, nextOp, resources, available, loaned, draining,
             waiting>>
callVars == <<pc, args, client, start, outcome, unhandled, trace>>
closeVars == <<closePc, closeCalledAt, closeTimeout, closePending, closeTrace, closeOutcome>>
staticVars == <<method, source, target>>
vars == <<emitControl, onErrorMessage, emitted, poolVars, callVars, now, closeVars,
          staticVars>>

\* A promise that has not settled.  Of a settled one: kind and value are what
\* the caller sees; cause is the error the failing operation gave, last is
\* this._onErrorMessage when the promise settled and before is what it was when
\* the callback that settled it began.
Pending == [kind |-> "pending", value |-> <<>>, cause |-> <<>>, last |-> NULL,
            before |-> NULL]

\* A promise of the factory that has not settled; a settled one has settle
\* "resolve" or "reject" and the value or reason it settled with.
Unsettled == [settle |-> "pending", value |-> NULL]

\* `x ? ... : ...` / `x && ...` on a string-or-null value
Truthy(v) == v # NULL /\ v # EmptyString

\* client.processID
processID(c) == 6870 + c

\* The instance after `new PostgresMuchos(dbConfig, poolConfig, flags)`.
Constructed(flags) ==
    /\ emitControl = flags
    /\ onErrorMessage = NULL
    /\ emitted = [by \in 0..NumCalls |-> <<>>]
    /\ createOps = {}
    /\ factoryResult = [op \in Ops |-> [create |-> Unsettled, destroy |-> Unsettled]]
    /\ nextOp = 1
    /\ resources = {}
    /\ available = {}
    /\ loaned = {}
    /\ draining = FALSE
    /\ waiting = {}
    /\ pc = [c \in Calls |-> "idle"]
    /\ args = [c \in Calls |-> [sql |-> <<>>, parms |-> <<>>]]
    /\ client = [c \in Calls |-> NoClient]
    /\ start = [c \in Calls |-> 0]
    /\ outcome = [c \in Calls |-> Pending]
    /\ unhandled = {}
    /\ trace = [c \in Calls |-> <<>>]
    /\ now = 0
    /\ closePc = "idle"
    /\ closeCalledAt = 0
    /\ closeTimeout = 0
    /\ closePending = {}
    /\ closeTrace = <<>>
    /\ closeOutcome = Pending

EmitControls == [connect : BOOLEAN, disconnect : BOOLEAN, query : BOOLEAN,
                 results : BOOLEAN]

Init ==
    /\ \E flags \in EmitControls : Constructed(flags)
    /\ method = "none"
    /\ source = Undefined
    /\ target = Undefined

\* Variant: the flag is not consulted.
Emit_Unconditional(log, flag, by, payload) ==
    [log EXCEPT ![by] = Append(@, payload)]

\* `flag && that.emit(tag, payload)`: the event is produced only under its flag.
\* `by` is the query call it was produced for (0 for the factory).
Emit(log, flag, by, payload) ==
    IF flag THEN [log EXCEPT ![by] = Append(@, payload)] ELSE log

\* The clock advances; it is taken not to step backwards between two readings.
Tick ==
    /\ now + TickMs <= MaxTime
    /\ now' = now + TickMs
    /\ UNCHANGED <<staticVars, emitControl, onErrorMessage, emitted, poolVars, callVars,
                   closeVars>>

\* ------------------------------------------------- factory and pool events

\* Variant: the handler stores whatever it is given.
FactoryCreateError_Always(err) == err

\* this._pool.on('factoryCreateError', (err) => { err && (this._onErrorMessage = err) })
FactoryCreateError(err) == IF Truthy(err) THEN err ELSE onErrorMessage

\* generic-pool invokes factory.create(): for a waiting request, or to fill
\* the pool up to poolConfig.min while it is not draining.
CreateStart ==
    /\ nextOp <= MaxCreates
    /\ Cardinality(resources) + Cardinality(createOps) < MaxPool
    /\ waiting # {} \/ ~draining
    /\ createOps' = createOps \cup {nextOp}
    /\ nextOp' = nextOp + 1
    /\ UNCHANGED <<staticVars, emitControl, onErrorMessage, emitted, factoryResult,
                   resources, available, loaned, draining, waiting, callVars, now,
                   closeVars>>

\* resolve(client) and reject(err.message) of create
CreateResolved(op) == [settle |-> "resolve", value |-> <<"client", op>>]
CreateRejected(message) == [settle |-> "reject", value |-> message]

\* client.connect((err) => ...) with err absent: the connect event, resolve(client).
CreateOk(op) ==
    /\ op \in createOps
    /\ emitted' = Emit(emitted, emitControl.connect, 0,
                       [event |-> "connect", processID |-> processID(op)])
    /\ createOps' = createOps \ {op}
    /\ factoryResult' = [factoryResult EXCEPT ![op].create = CreateResolved(op)]
    /\ resources' = resources \cup {op}
    /\ available' = available \cup {op}
    /\ UNCHANGED <<staticVars, emitControl, onErrorMessage, nextOp, loaned, draining,
                   waiting, callVars, now, closeVars>>

\* client.connect((err) => ...) with err: reject(err.message); the pool emits
\* factoryCreateError with that reason.
CreateFail(op, message) ==
    /\ op \in createOps
    /\ onErrorMessage' = FactoryCreateError(message)
    /\ factoryResult' = [factoryResult EXCEPT ![op].create = CreateRejected(message)]
    /\ createOps' = createOps \ {op}
    /\ UNCHANGED <<staticVars, emitControl, emitted, nextOp, resources, available,
                   loaned, draining, waiting, callVars, now, closeVars>>

\* Errors client.end may call back with; NULL is no error.
EndErrors == { NULL, <<"end failed">> }

\* reject(err) and resolve() of destroy
DestroySettled(err) ==
    IF err # NULL THEN [settle |-> "reject", value |-> err]
    ELSE [settle |-> "resolve", value |-> NULL]

DisconnectEvent(r) == [event |-> "disconnect", processID |-> processID(r)]

\* Variant: the disconnect event is emitted before err is looked at.
Destroy_EmitsFirst(r, err) ==
    /\ closePc = "clearing"
    /\ r \in available
    /\ emitted' = Emit(emitted, emitControl.disconnect, 0, DisconnectEvent(r))
    /\ factoryResult' = [factoryResult EXCEPT ![r].destroy = DestroySettled(err)]
    /\ resources' = resources \ {r}
    /\ available' = available \ {r}
    /\ UNCHANGED <<staticVars, emitControl, onErrorMessage, createOps, nextOp, loaned,
                   draining, waiting, callVars, now, closeVars>>

\* client.end((err) => ...) of factory.destroy, invoked by the pool's clear():
\* with err reject(err); else the disconnect event and resolve().  The pool
\* lets go of the client either way.
Destroy(r, err) ==
    /\ closePc = "clearing"
    /\ r \in available
    /\ emitted' = IF err # NULL THEN emitted
                  ELSE Emit(emitted, emitControl.disconnect, 0, DisconnectEvent(r))
    /\ factoryResult' = [factoryResult EXCEPT ![r].destroy = DestroySettled(err)]
    /\ resources' = resources \ {r}
    /\ available' = available \ {r}
    /\ UNCHANGED <<staticVars, emitControl, onErrorMessage, createOps, nextOp, loaned,
                   draining, waiting, callVars, now, closeVars>>

\* ------------------------------------------------------------------ query

\* Variant: the factory error is left out of the message.
CompositeMessage_NoContext(message, last) == message \o <<": ">>

\* `${err.message}: ${this._onErrorMessage ? this._onErrorMessage : ""}`
CompositeMessage(message, last) ==
    message \o <<": ">> \o (IF Truthy(last) THEN last ELSE EmptyString)

\* pool.release(r): a client on loan goes back to the idle ones; anything else
\* (null included) is refused by the pool and changes nothing.
ReleaseAvailable(r) == IF r \in loaned THEN available \cup {r} ELSE available
ReleaseLoaned(r) == loaned \ {r}
\* The promise release returns rejects for what the pool refuses.
ReleaseRejects(r) == r \notin loaned

\* `this._pool.release(client).then();` of the then handler: no rejection
\* handler is attached to the promise.
ThenReleaseUnhandled(c, rejected) == IF rejected THEN unhandled \cup {c} ELSE unhandled

\* `this._pool.release(client).then().catch((err) => {})` of the catch handler.
CatchReleaseUnhandled(c, rejected) == unhandled

\* Variant: resolve before release.
ThenSteps_ResolveFirst(r) ==
    << [op |-> "resolve", arg |-> r], [op |-> "release", arg |-> r] >>

\* .then((results) => { this._pool.release(client).then(); return resolve(results); })
ThenSteps(r) == << [op |-> "release", arg |-> r], [op |-> "resolve", arg |-> r] >>

\* `releaseFailed`: the pool answered the release with a rejected promise.
ThenResolve(c, results, releaseFailed) ==
    /\ available' = ReleaseAvailable(client[c])
    /\ loaned' = ReleaseLoaned(client[c])
    /\ unhandled' = ThenReleaseUnhandled(c, releaseFailed \/ ReleaseRejects(client[c]))
    /\ trace' = [trace EXCEPT ![c] = @ \o ThenSteps(client[c])]
    /\ outcome' = [outcome EXCEPT ![c] =
                      [kind |-> "resolved", value |-> results, cause |-> <<>>,
                       last |-> onErrorMessage', before |-> onErrorMessage]]
    /\ pc' = [pc EXCEPT ![c] = "settled"]

\* .catch((err) => { this._pool && this._pool.release(client)...; reject(`...`) })
CatchSteps(r) == << [op |-> "release", arg |-> r], [op |-> "reject", arg |-> r] >>

\* Variant: the catch handler rejects without releasing the client.
CatchReject_NoRelease(c, message, sofar) ==
    /\ UNCHANGED <<available, loaned, unhandled>>
    /\ trace' = [trace EXCEPT ![c] = Append(sofar, [op |-> "reject", arg |-> client[c]])]
    /\ outcome' = [outcome EXCEPT ![c] =
                      [kind |-> "rejected",
                       value |-> message \o <<": ">> \o
                                 (IF Truthy(onErrorMessage) THEN onErrorMessage
                                  ELSE EmptyString),
                       cause |-> message, last |-> onErrorMessage,
                       before |-> onErrorMessage]]
    /\ pc' = [pc EXCEPT ![c] = "settled"]

\* `sofar` is the trace of the call up to the handler.
CatchReject(c, message, sofar) ==
    /\ available' = ReleaseAvailable(client[c])
    /\ loaned' = ReleaseLoaned(client[c])
    /\ unhandled' = CatchReleaseUnhandled(c, ReleaseRejects(client[c]))
    /\ trace' = [trace EXCEPT ![c] = sofar \o CatchSteps(client[c])]
    /\ outcome' = [outcome EXCEPT ![c] =
                      [kind |-> "rejected",
                       value |-> CompositeMessage(message, onErrorMessage),
                       cause |-> message, last |-> onErrorMessage,
                       before |-> onErrorMessage]]
    /\ pc' = [pc EXCEPT ![c] = "settled"]

\* query(sql, parms): this._pool.acquire(0).  A draining pool refuses the
\* request at once and the catch handler runs.  Calls are numbered in the
\* order they are issued.
Query(c, in) ==
    /\ pc[c] = "idle"
    /\ \A d \in Calls : d < c => pc[d] # "idle"
    /\ args' = [args EXCEPT ![c] = in]
    /\ IF draining
       THEN /\ CatchReject(c, <<"pool is draining and cannot accept work">>,
                            Append(trace[c], [op |-> "acquire", arg |-> NoClient]))
            /\ UNCHANGED waiting
       ELSE /\ waiting' = waiting \cup {c}
            /\ pc' = [pc EXCEPT ![c] = "acquiring"]
            /\ trace' = [trace EXCEPT ![c] = Append(@, [op |-> "acquire", arg |-> NoClient])]
            /\ UNCHANGED <<available, loaned, outcome, unhandled>>
    /\ UNCHANGED <<staticVars, emitControl, onErrorMessage, emitted, createOps,
                   factoryResult, nextOp, resources, draining, client, start, now,
                   closeVars>>

\* The pool hands client r to the request of call c; the first then handler
\* stores it and _query submits the statement: start is taken, client.query called.
AcquireOk(c, r) ==
    /\ c \in waiting
    /\ r \in available
    /\ waiting' = waiting \ {c}
    /\ available' = available \ {r}
    /\ loaned' = loaned \cup {r}
    /\ client' = [client EXCEPT ![c] = r]
    /\ start' = [start EXCEPT ![c] = now]
    /\ pc' = [pc EXCEPT ![c] = "executing"]
    /\ trace' = [trace EXCEPT ![c] = @ \o << [op |-> "acquired", arg |-> r],
                                             [op |-> "execute", arg |-> r] >>]
    /\ UNCHANGED <<staticVars, emitControl, onErrorMessage, emitted, createOps,
                   factoryResult, nextOp, resources, draining, args, outcome, unhandled,
                   now, closeVars>>

\* The pool rejects the request of call c (acquireTimeoutMillis elapsed).
AcquireFail(c, message) ==
    /\ c \in waiting
    /\ waiting' = waiting \ {c}
    /\ CatchReject(c, message, trace[c])
    /\ UNCHANGED <<staticVars, emitControl, onErrorMessage, emitted, createOps,
                   factoryResult, nextOp, resources, draining, args, client, start, now,
                   closeVars>>

\* The payloads of _query.
QueryEvent(c) ==
    [event |-> "query", sql |-> args[c].sql, parms |-> args[c].parms,
     processID |-> processID(client[c])]

\* Variant: the subtraction is the wrong way round.
ResultsEvent_Reversed(c, results) ==
    [event |-> "results", elapsedTime |-> start[c] - now, sql |-> args[c].sql,
     parms |-> args[c].parms, data |-> results.rows,
     processID |-> processID(client[c])]

ResultsEvent(c, results) ==
    [event |-> "results", elapsedTime |-> now - start[c], sql |-> args[c].sql,
     parms |-> args[c].parms, data |-> results.rows,
     processID |-> processID(client[c])]

\* Variant: the success path leaves the message alone.
ClearedErrorMessage_Kept == onErrorMessage

\* What _query's callback does to this._onErrorMessage on success.
ClearedErrorMessage == NULL

\* client.query's callback without err.  emit() runs the listeners
\* synchronously: a listener that throws ends the callback there, and neither
\* resolve nor the then handler of query() is reached.  `releaseFailed` is the
\* pool's answer to the release of the then handler.
DriverOk(c, rows, thrower, releaseFailed) ==
    /\ pc[c] = "executing"
    /\ LET results == [command |-> "SELECT", rowCount |-> Len(rows), rows |-> rows]
           afterQuery == Emit(emitted, emitControl.query, c, QueryEvent(c))
           afterResults == Emit(afterQuery, emitControl.results, c,
                                ResultsEvent(c, results))
           queryThrew == emitControl.query /\ thrower = "query"
           resultsThrew == emitControl.results /\ thrower = "results"
       IN  /\ onErrorMessage' = ClearedErrorMessage
           /\ emitted' = IF queryThrew THEN afterQuery ELSE afterResults
           /\ IF queryThrew \/ resultsThrew
              THEN /\ pc' = [pc EXCEPT ![c] = "thrown"]
                   /\ trace' = [trace EXCEPT ![c] = Append(@, [op |-> "throw",
                                                                arg |-> client[c]])]
                   /\ UNCHANGED <<available, loaned, outcome, unhandled>>
              ELSE ThenResolve(c, results, releaseFailed)
    /\ UNCHANGED <<staticVars, emitControl, createOps, factoryResult, nextOp, resources,
                   draining, waiting, args, client, start, now, closeVars>>

\* Variant: the query event is emitted before err is looked at.
DriverFail_EmitsQuery(c, message) ==
    /\ pc[c] = "executing"
    /\ emitted' = Emit(emitted, emitControl.query, c, QueryEvent(c))
    /\ CatchReject(c, message, trace[c])
    /\ UNCHANGED <<staticVars, emitControl, onErrorMessage, createOps, factoryResult,
                   nextOp, resources, draining, waiting, args, client, start, now,
                   closeVars>>

\* Variant: the failure path clears the factory error as the success path does.
DriverFail_Clears(c, message) ==
    /\ pc[c] = "executing"
    /\ onErrorMessage' = NULL
    /\ CatchReject(c, message, trace[c])
    /\ UNCHANGED <<staticVars, emitControl, emitted, createOps, factoryResult, nextOp,
                   resources, draining, waiting, args, client, start, now, closeVars>>

\* client.query's callback with err: reject(err), then the catch handler.
DriverFail(c, message) ==
    /\ pc[c] = "executing"
    /\ CatchReject(c, message, trace[c])
    /\ UNCHANGED <<staticVars, emitControl, onErrorMessage, emitted, createOps,
                   factoryResult, nextOp, resources, draining, waiting, args, client,
                   start, now, closeVars>>

\* ------------------------------------------------------------------ close

\* Variant: close never waits.
CloseTimeoutFor_NoWait(pendingOps) == 0

\* Variant: close waits whether or not a create is pending.
CloseTimeoutFor_AlwaysWait(pendingOps) == FACTORY_CREATION_WAIT_PERIOD

\* close(): timeout is the wait period when creates are pending, else 0;
\* waitFunction(timeout) arms the timer.
CloseTimeoutFor(pendingOps) ==
    IF pendingOps # {} THEN FACTORY_CREATION_WAIT_PERIOD ELSE 0

CloseCall ==
    /\ closePc = "idle"
    /\ closePc' = "waiting"
    /\ closeCalledAt' = now
    /\ closeTimeout' = CloseTimeoutFor(createOps)
    /\ closePending' = createOps
    /\ UNCHANGED <<staticVars, emitControl, onErrorMessage, emitted, poolVars, callVars,
                   now, closeTrace, closeOutcome>>

\* An entry of closeTrace: a step of close() ("drain" and "clear" are the
\* invocations, "drained", "cleared" and "failed" what the pool answered,
\* "resolve" and "reject" the settlement), with the time and the creates of
\* closePending still pending then.
CloseEntry(step) ==
    [op |-> step, at |-> now, unsettled |-> closePending \cap createOps]

\* Variant: the timer fires at once, whatever its delay.
TimerDue_AtOnce == TRUE

\* setTimeout fires no earlier than its delay
TimerDue == now >= closeCalledAt + closeTimeout

\* The timer fires: waitFunction resolves and this._pool.drain() is invoked.
CloseDrain ==
    /\ closePc = "waiting"
    /\ TimerDue
    /\ closePc' = "draining"
    /\ draining' = TRUE
    /\ closeTrace' = Append(closeTrace, CloseEntry("drain"))
    /\ UNCHANGED <<staticVars, emitControl, onErrorMessage, emitted, createOps,
                   factoryResult, nextOp, resources, available, loaned, waiting,
                   callVars, now, closeCalledAt, closeTimeout, closePending,
                   closeOutcome>>

\* drain() resolves (no request waiting, no client on loan): this._pool.clear().
DrainDone ==
    /\ closePc = "draining"
    /\ waiting = {}
    /\ loaned = {}
    /\ closePc' = "clearing"
    /\ closeTrace' = closeTrace \o << CloseEntry("drained"), CloseEntry("clear") >>
    /\ UNCHANGED <<staticVars, emitControl, onErrorMessage, emitted, poolVars, callVars,
                   now, closeCalledAt, closeTimeout, closePending, closeOutcome>>

\* clear() resolves (the idle clients are destroyed): resolve().
ClearDone ==
    /\ closePc = "clearing"
    /\ available = {}
    /\ closePc' = "resolved"
    /\ closeOutcome' = [Pending EXCEPT !.kind = "resolved"]
    /\ closeTrace' = closeTrace \o << CloseEntry("cleared"), CloseEntry("resolve") >>
    /\ UNCHANGED <<staticVars, emitControl, onErrorMessage, emitted, poolVars, callVars,
                   now, closeCalledAt, closeTimeout, closePending>>

\* Variant: a failed drain is swallowed and close() goes on to clear.
CloseFail_GoesOn(message) ==
    /\ closePc \in {"draining", "clearing"}
    /\ IF closePc = "draining"
       THEN /\ closePc' = "clearing"
            /\ closeOutcome' = closeOutcome
            /\ closeTrace' = closeTrace \o << CloseEntry("failed"), CloseEntry("clear") >>
       ELSE /\ closePc' = "rejected"
            /\ closeOutcome' = [Pending EXCEPT !.kind = "rejected", !.value = message,
                                                 !.cause = message]
            /\ closeTrace' = closeTrace \o << CloseEntry("failed"), CloseEntry("reject") >>
    /\ UNCHANGED <<staticVars, emitControl, onErrorMessage, emitted, poolVars, callVars,
                   now, closeCalledAt, closeTimeout, closePending>>

\* drain() or clear() rejects: .catch((err) => reject(err)).
CloseFail(message) ==
    /\ closePc \in {"draining", "clearing"}
    /\ closePc' = "rejected"
    /\ closeOutcome' = [Pending EXCEPT !.kind = "rejected", !.value = message,
                                         !.cause = message]
    /\ closeTrace' = closeTrace \o << CloseEntry("failed"), CloseEntry("reject") >>
    /\ UNCHANGED <<staticVars, emitControl, onErrorMessage, emitted, poolVars, callVars,
                   now, closeCalledAt, closeTimeout, closePending>>

\* ------------------------------------------------------------------- next

CreateOkStep == \E op \in Ops : CreateOk(op)
CreateFailStep == \E op \in Ops, m \in CreateErrors : CreateFail(op, m)
DestroyStep == \E r \in Ops, err \in EndErrors : Destroy(r, err)
QueryStep == \E c \in Calls, in \in Inputs : Query(c, in)
AcquireOkStep == \E c \in Calls, r \in Ops : AcquireOk(c, r)
AcquireFailStep == \E c \in Calls, m \in AcquireErrors : AcquireFail(c, m)
DriverOkStep ==
    \E c \in Calls, rows \in Rows, t \in Listeners, f \in BOOLEAN : DriverOk(c, rows, t, f)
DriverFailStep == \E c \in Calls, m \in DriverErrors : DriverFail(c, m)
CloseFailStep == \E m \in { <<"drain failed">> } : CloseFail(m)

Next ==
    \/ Tick
    \/ CreateStart
    \/ CreateOkStep
    \/ CreateFailStep
    \/ DestroyStep
    \/ QueryStep
    \/ AcquireOkStep
    \/ AcquireFailStep
    \/ DriverOkStep
    \/ DriverFailStep
    \/ CloseCall
    \/ CloseDrain
    \/ DrainDone
    \/ ClearDone
    \/ CloseFailStep

Spec == Init /\ [][Next]_vars

\* The pool answers every request (acquireTimeoutMillis is never 0: the
\* constructor sets 1000 when it is absent) and the driver calls back.
AcquireReturn(c) ==
    \/ \E r \in Ops : AcquireOk(c, r)
    \/ \E m \in AcquireErrors : AcquireFail(c, m)
DriverReturn(c) ==
    \/ \E rows \in Rows, t \in Listeners, f \in BOOLEAN : DriverOk(c, rows, t, f)
    \/ \E m \in DriverErrors : DriverFail(c, m)

FairSpec ==
    Spec /\ \A c \in Calls : WF_vars(AcquireReturn(c)) /\ WF_vars(DriverReturn(c))

\* ------------------------------------- static helpers and factory.validate

\* String.prototype.replace with a one character global pattern.
RECURSIVE ReplaceAll(_, _, _)
ReplaceAll(chars, ch, replacement) ==
    IF chars = <<>> THEN <<>>
    ELSE (IF Head(chars) = ch THEN replacement ELSE <<Head(chars)>>)
         \o ReplaceAll(Tail(chars), ch, replacement)

\* The same without the g flag: only the first match is replaced.
RECURSIVE ReplaceFirst(_, _, _)
ReplaceFirst(chars, ch, replacement) ==
    IF chars = <<>> THEN <<>>
    ELSE IF Head(chars) = ch THEN replacement \o Tail(chars)
    ELSE <<Head(chars)>> \o ReplaceFirst(Tail(chars), ch, replacement)

\* Variant: the pattern has no g flag.
escapeDoubleQuotes_FirstOnly(src) ==
    IF src.type = "string"
    THEN StringValue(ReplaceFirst(src.chars, "\"", <<"\\", "\"">>))
    ELSE src

\* (typeof source === 'string') ? source.replace(/"/g, '\\"') : source
escapeDoubleQuotes(src) ==
    IF src.type = "string"
    THEN StringValue(ReplaceAll(src.chars, "\"", <<"\\", "\"">>))
    ELSE src

\* Variant: the pattern has no g flag.
escapeSingleQuotes_FirstOnly(src) ==
    IF src.type = "string"
    THEN StringValue(ReplaceFirst(src.chars, "'", <<"'", "'">>))
    ELSE src

\* (typeof source === 'string') ? source.replace(/'/g, "''") : source
escapeSingleQuotes(src) ==
    IF src.type = "string"
    THEN StringValue(ReplaceAll(src.chars, "'", <<"'", "'">>))
    ELSE src

\* factory.validate(client): how the promise it returns settles.  The probe
\* `select 1` calls back with err exactly when the connection is dead.
validate(cl) ==
    IF ~cl.alive THEN [settle |-> "reject", value |-> FALSE]
    ELSE [settle |-> "resolve", value |-> TRUE]

\* The helpers are static and validate uses its argument only: the instance
\* plays no part and stays as constructed.
InitStatic ==
    /\ Constructed([connect |-> FALSE, disconnect |-> FALSE, query |-> FALSE,
                    results |-> FALSE])
    /\ method = "none"
    /\ source \in Sources
    /\ target = Undefined

Apply(name, result) ==
    /\ method = "none"
    /\ method' = name
    /\ target' = result
    /\ UNCHANGED <<source, emitControl, onErrorMessage, emitted, poolVars, callVars,
                   now, closeVars>>

EscapeDouble == Apply("escapeDoubleQuotes", escapeDoubleQuotes(source))
EscapeSingle == Apply("escapeSingleQuotes", escapeSingleQuotes(source))
Validate == source.type = "client" /\ Apply("validate", validate(source))

NextStatic ==
    \/ EscapeDouble
    \/ EscapeSingle
    \/ Validate

SpecStatic == InitStatic /\ [][NextStatic]_vars

\* ----------------------------------------------------------- properties

\* The positions of trace[c] that hold step `name`.
Steps(c, name) == { i \in DOMAIN trace[c] : trace[c][i].op = name }
Settles(c) == Steps(c, "resolve") \cup Steps(c, "reject")
\* The calls that hold a client: acquired and not yet through a handler of query().
InFlight == { c \in Calls : pc[c] \in {"executing", "thrown"} }

C2_AcquireExecuteReleaseSettle ==
    \A c \in Calls :
        LET t == trace[c] IN
        /\ t # <<>> => t[1].op = "acquire"
        /\ \A i \in Steps(c, "execute") : \E j \in Steps(c, "acquired") : j < i
        /\ \A i \in Steps(c, "release") :
             trace[c][i].arg # NoClient => \E j \in Steps(c, "execute") : j < i
        /\ \A i \in Settles(c) :
             /\ i = Len(t)
             /\ Steps(c, "execute") # {} =>
                  \E j \in Steps(c, "release") : j < i /\ t[j].arg = client[c]
        /\ (pc[c] = "settled") <=> (Settles(c) # {})
        /\ Cardinality(Settles(c)) <= 1

\* The exits have been taken: a call resolved or was rejected after its
\* statement failed, and another was rejected because its acquire failed.
C2_Witness ==
    /\ \E c \in Calls : Steps(c, "execute") # {} /\ Settles(c) # {}
    /\ \E c \in Calls : outcome[c].kind = "rejected" /\ Steps(c, "acquired") = {}

\* C3: every query() call that was issued eventually settles, and once all
\* issued calls have settled no client is on loan and every client of the
\* pool is idle again.
C3_AllSettleNoLeak ==
    /\ \A c \in Calls : (pc[c] # "idle") ~> (pc[c] = "settled")
    /\ []((\A c \in Calls : pc[c] \in {"idle", "settled"}) =>
            (loaned = {} /\ available = resources))

\* C4: a call whose acquire failed holds no client, never invoked release on
\* the pool, and is rejected with the composite message.
C4_NoReleaseOnAcquireFailure ==
    \A c \in Calls :
        (pc[c] = "settled" /\ Steps(c, "acquired") = {}) =>
            /\ client[c] = NoClient
            /\ outcome[c].kind = "rejected"
            /\ Steps(c, "release") = {}

\* C5 as stated: the message of a rejected call is the error message of the
\* failing operation followed by the factory error if there is one, and by
\* nothing if there is none.
C5_MessageThenFactoryError ==
    \A c \in Calls :
        outcome[c].kind = "rejected" =>
            outcome[c].value =
                outcome[c].cause \o
                (IF outcome[c].last # NULL THEN outcome[c].last ELSE EmptyString)

\* C5 amended: the message of a rejected call is the error message of the
\* failing operation, then the separator ": ", then the factory error if there
\* is one and nothing if there is none.
C5_MessageSeparatorFactoryError ==
    \A c \in Calls :
        outcome[c].kind = "rejected" =>
            /\ outcome[c].last # NULL =>
                 outcome[c].value = outcome[c].cause \o <<": ">> \o outcome[c].last
            /\ outcome[c].last = NULL =>
                 outcome[c].value = Append(outcome[c].cause, ": ")

\* A driver failure with a factory error on record, and an acquire failure
\* with none.
C5_Witness ==
    \E c, d \in Calls :
        /\ outcome[c].kind = "rejected" /\ Steps(c, "execute") # {}
        /\ outcome[c].last # NULL
        /\ outcome[d].kind = "rejected" /\ Steps(d, "acquired") = {}
        /\ outcome[d].last = NULL

C7_EventOnlyUnderItsFlag ==
    \A by \in DOMAIN emitted :
        \A i \in DOMAIN emitted[by] : emitControl[emitted[by][i].event]

\* With no flag set a client was created, a query resolved on it and close()
\* destroyed it.
C7_Witness ==
    /\ \A tag \in DOMAIN emitControl : ~emitControl[tag]
    /\ \E c \in Calls : outcome[c].kind = "resolved"
    /\ closePc = "resolved"

\* The events of call c that carry `tag`.
EventsOf(c, tag) == { i \in DOMAIN emitted[c] : emitted[c][i].event = tag }

\* C8: for a resolved call, with the results flag set there is exactly one
\* results event, its elapsedTime is >= 0 and its data is the rows of the
\* Result; with the query flag set there is exactly one query event, with the
\* sql and parms of the call and the processID of the client it used.
C8_OneEventPerFlagOnSuccess ==
    \A c \in Calls :
        outcome[c].kind = "resolved" =>
            /\ emitControl.results =>
                 /\ Cardinality(EventsOf(c, "results")) = 1
                 /\ \A i \in EventsOf(c, "results") :
                      /\ emitted[c][i].elapsedTime >= 0
                      /\ emitted[c][i].data = outcome[c].value.rows
            /\ emitControl.query =>
                 /\ Cardinality(EventsOf(c, "query")) = 1
                 /\ \A i \in EventsOf(c, "query") :
                      /\ emitted[c][i].sql = args[c].sql
                      /\ emitted[c][i].parms = args[c].parms
                      /\ emitted[c][i].processID = processID(client[c])

\* Both flags set; a call with parameters resolved with a row after time passed.
C8_Witness ==
    /\ emitControl.query /\ emitControl.results
    /\ \E c \in Calls :
         /\ outcome[c].kind = "resolved"
         /\ outcome[c].value.rows # <<>>
         /\ args[c].parms # <<>>
         /\ \E i \in EventsOf(c, "results") : emitted[c][i].elapsedTime > 0

\* C9: when the promise of query() resolves, _onErrorMessage is null.
C9_NoFactoryErrorAtResolve ==
    \A c \in Calls : outcome[c].kind = "resolved" => outcome[c].last = NULL

\* A call resolved although a create had failed before its statement returned.
C9_Witness ==
    \E c \in Calls : outcome[c].kind = "resolved" /\ outcome[c].before # NULL

\* The invocations of `name` that close() made.
CloseSteps(name) == { i \in DOMAIN closeTrace : closeTrace[i].op = name }

\* C10 as stated: drain is never invoked while a create operation that was
\* pending when close() was called is still pending, and clear follows drain.
C10_DrainAfterCreatesSettle ==
    /\ \A i \in CloseSteps("drain") : closeTrace[i].unsettled = {}
    /\ \A i \in CloseSteps("clear") : \E j \in CloseSteps("drain") : j < i

\* C10 amended: when a create operation was pending as close() was called,
\* drain is not invoked before the wait period has elapsed since that call,
\* whether or not the create has settled by then; and clear follows drain.
C10_DrainAfterWaitPeriod ==
    /\ \A i \in CloseSteps("drain") :
         closePending # {} =>
             closeTrace[i].at >= closeCalledAt + FACTORY_CREATION_WAIT_PERIOD
    /\ \A i \in CloseSteps("clear") : \E j \in CloseSteps("drain") : j < i

\* close() was called with a create pending, and has drained and cleared.
C10_Witness ==
    /\ closePending # {}
    /\ CloseSteps("drain") # {}
    /\ CloseSteps("clear") # {}

\* C11: when a create operation was pending as close() was called, the timer
\* of close() is armed with the wait period, and drain is invoked only at a
\* time at least FACTORY_CREATION_WAIT_PERIOD after the call.
C11_GracePeriodBeforeDrain ==
    closePending # {} =>
        /\ closePc # "idle" => closeTimeout = FACTORY_CREATION_WAIT_PERIOD
        /\ \A i \in CloseSteps("drain") :
             closeTrace[i].at - closeCalledAt >= FACTORY_CREATION_WAIT_PERIOD
        /\ (closePc = "waiting" /\ now - closeCalledAt < FACTORY_CREATION_WAIT_PERIOD)
             => CloseSteps("drain") = {}

\* close() was called with a create pending and drain has been invoked, the
\* wait period after the call.
C11_Witness ==
    /\ closePending # {}
    /\ \E i \in CloseSteps("drain") :
         closeTrace[i].at = closeCalledAt + FACTORY_CREATION_WAIT_PERIOD

\* C12: when no create operation was pending as close() was called, the timer
\* is armed with 0 so that drain may be invoked at once; clear is invoked only
\* after drain, once drain has completed; close() resolves only once clear has
\* completed.
C12_NoPendingNoDelay ==
    (closePc # "idle" /\ closePending = {}) =>
        /\ closeTimeout = 0
        /\ closePc = "waiting" => TimerDue
        /\ \A i \in CloseSteps("clear") :
             /\ i > 2
             /\ closeTrace[i - 1].op = "drained"
             /\ closeTrace[i - 2].op = "drain"
        /\ \A i \in CloseSteps("resolve") :
             /\ i > 1
             /\ closeTrace[i - 1].op = "cleared"
             /\ \E j \in CloseSteps("clear") : j < i
        /\ (closeOutcome.kind = "resolved") <=> (CloseSteps("resolve") # {})

\* close() was called with nothing pending and has resolved, having invoked
\* drain at the time of the call.
C12_Witness ==
    /\ closePending = {}
    /\ closeOutcome.kind = "resolved"
    /\ \E i \in CloseSteps("drain") : closeTrace[i].at = closeCalledAt

\* C13: when drain or clear fails, close() is rejected with the error the
\* pool gave; close() invokes nothing after a failure (no clear after a failed
\* drain) and invokes drain and clear at most once each.
C13_CloseFailsWithoutRetry ==
    /\ Cardinality(CloseSteps("drain")) <= 1
    /\ Cardinality(CloseSteps("clear")) <= 1
    /\ \A i \in CloseSteps("failed") :
         /\ i < Len(closeTrace) /\ closeTrace[i + 1].op = "reject"
         /\ i + 1 = Len(closeTrace)
         /\ closeTrace[i - 1].op = "drain" => CloseSteps("clear") = {}
         /\ closeOutcome.kind = "rejected"
         /\ closeOutcome.value = closeOutcome.cause
    /\ closeOutcome.kind = "rejected" => CloseSteps("failed") # {}

\* drain failed and close() was rejected.
C13_Witness ==
    /\ closeOutcome.kind = "rejected"
    /\ \E i \in CloseSteps("failed") : closeTrace[i - 1].op = "drain"

\* C14: a listener that fails while it handles a query or results event does
\* not affect the call: the call resolves with the Result of the driver and
\* the client it used is released to the pool.
C14_ListenerFailureHarmless ==
    \A c \in Calls :
        Steps(c, "throw") # {} =>
            /\ outcome[c].kind = "resolved"
            /\ Steps(c, "release") # {}
            /\ client[c] \notin loaned

\* C17: with the query flag set, the query event of a call has been emitted
\* by the time its statement is submitted to the database, for every
\* statement submitted.
C17_QueryEventAtSubmission ==
    emitControl.query =>
        \A c \in Calls : Steps(c, "execute") # {} => EventsOf(c, "query") # {}

\* The number of occurrences of ch among the first n characters of chars.
RECURSIVE Count(_, _, _)
Count(chars, ch, n) ==
    IF n = 0 THEN 0 ELSE Count(chars, ch, n - 1) + (IF chars[n] = ch THEN 1 ELSE 0)

\* to is from with every ch replaced by the two characters of pair, the other
\* characters kept, in order.
Escaped(from, to, ch, pair) ==
    /\ Len(to) = Len(from) + Count(from, ch, Len(from))
    /\ \A i \in 1..Len(from) :
         LET k == i + Count(from, ch, i - 1)
         IN  IF from[i] = ch THEN to[k] = pair[1] /\ to[k + 1] = pair[2]
             ELSE to[k] = from[i]

\* C15: escapeDoubleQuotes returns a non-string argument itself; of a string
\* it returns the string with a backslash and a double quote in place of each
\* double quote and every other character kept in order, so that a string
\* without double quotes comes back equal.
C15_EscapeDoubleQuotes ==
    method = "escapeDoubleQuotes" =>
        IF source.type # "string" THEN target = source
        ELSE /\ target.type = "string"
             /\ Escaped(source.chars, target.chars, "\"", <<"\\", "\"">>)
             /\ (\A i \in 1..Len(source.chars) : source.chars[i] # "\"") => target = source

\* The string "a" in double quotes was escaped.
C15_Witness ==
    /\ method = "escapeDoubleQuotes"
    /\ source = StringValue(<<"\"", "a", "\"">>)
    /\ target = StringValue(<<"\\", "\"", "a", "\\", "\"">>)

\* C16: escapeSingleQuotes returns a non-string argument itself; of a string
\* it returns the string with two single quotes in place of each single quote
\* and every other character kept in order, so that a string without single
\* quotes comes back equal.
C16_EscapeSingleQuotes ==
    method = "escapeSingleQuotes" =>
        IF source.type # "string" THEN target = source
        ELSE /\ target.type = "string"
             /\ Escaped(source.chars, target.chars, "'", <<"'", "'">>)
             /\ (\A i \in 1..Len(source.chars) : source.chars[i] # "'") => target = source

\* A string with two single quotes and another character was escaped.
C16_Witness ==
    /\ method = "escapeSingleQuotes"
    /\ source.type = "string"
    /\ Count(source.chars, "'", Len(source.chars)) = 2
    /\ Len(source.chars) = 3
    /\ Len(target.chars) = 5

\* C19: validate yields the outcome of its probe as a value: true when the
\* probe succeeded and false, not a rejection, when it failed.
C19_ValidateYieldsBoolean ==
    method = "validate" => target = [settle |-> "resolve", value |-> source.alive]

\* C18: a failure of the pool's release inside query() is swallowed on the
\* success path and on the error path alike: no call is left with a release
\* rejection that nothing handles.
C18_ReleaseFailureSwallowed ==
    \A c \in Calls : Steps(c, "release") # {} => c \notin unhandled

FactoryEvents(tag, r) ==
    { i \in DOMAIN emitted[0] :
        emitted[0][i] = [event |-> tag, processID |-> processID(r)] }

C22_FailedQueryKeepsFactoryError ==
    [][/\ \A c \in Calls :
             ( \/ \E m \in AcquireErrors : AcquireFail(c, m)
               \/ \E m \in DriverErrors : DriverFail(c, m)
               \/ \E in \in Inputs : Query(c, in) )
             => (onErrorMessage' = onErrorMessage)
       /\ (onErrorMessage' # onErrorMessage /\ onErrorMessage' # NULL) =>
             \E op \in Ops, m \in CreateErrors : CreateFail(op, m)
       /\ (onErrorMessage # NULL /\ onErrorMessage' = NULL) =>
             \E c \in Calls, rows \in Rows, t \in Listeners, f \in BOOLEAN :
                 DriverOk(c, rows, t, f)]_vars

\* A statement failed while a factory error was on record, and it still is.
C22_Witness ==
    \E c \in Calls :
        /\ outcome[c].kind = "rejected" /\ Steps(c, "execute") # {}
        /\ outcome[c].before = <<"ECONNREFUSED">>
        /\ onErrorMessage = <<"ECONNREFUSED">>
====
